---- MODULE Spec2Model ----
(***************************************************************************)
(* Model of server/engine/in_memory_stream_impl.go: one InMemoryStreamImpl *)
(* (a buffered Go channel `outputs`, a `stopped` flag, a `stopCh` signal   *)
(* channel and an RWMutex) used concurrently by goroutines that call Send, *)
(* Receive and Stop.                                                       *)
(*                                                                         *)
(* Go channel operations are atomic steps.  A goroutine that finds no case *)
(* of its select ready parks on the channel's wait queue (recvq / sendq)   *)
(* and is completed later by the goroutine that sends, receives, closes or *)
(* by its timer.  A select with several ready cases picks any of them.     *)
(* The timer of a select (time.After) may fire at any moment after the     *)
(* select is entered.  Statements that touch only locals, or only fields   *)
(* that cannot change under the lock held, are joined to the step before.  *)
(***************************************************************************)
EXTENDS Integers, Sequences, FiniteSets, TLC

\* ---------------------------------------------------------------- bounds
NumProcs == 3      \* goroutines calling into the stream
MaxCalls == 4      \* total number of Send/Receive/Stop invocations
MaxCapacity == 2   \* largest `size` given to NewInMemoryStreamImpl
MaxIterations == 2 \* largest value given to SetCircularBufferMaxIterations

Procs == 1..NumProcs
NoProc == 0

\* blockingWriteTimeoutSeconds values: <= 0 is circular mode, > 0 blocking
BlockingWriteTimeouts == {0, 1}

VARIABLES
  outputs,       \* buffer of the channel i.outputs (oldest first)
  outputsClosed, \* close(i.outputs) has run
  recvq,         \* goroutines parked receiving from i.outputs (FIFO)
  sendq,         \* goroutines parked sending to i.outputs (FIFO)
  stopChClosed,  \* close(i.stopCh) has run
  stopped,       \* i.stopped
  capacity,      \* i.capacity
  circularBufferMaxIterations,
  lock,          \* holder of the RWMutex write lock, NoProc when free
  pc,            \* position of each goroutine
  entry,         \* the StreamEntry a Send built (line 55)
  blockingWriteTimeoutSeconds, \* argument of the Send in progress
  iterations,    \* local of sendCircularBufferWithChannel
  res,           \* what the call in progress is going to return
  \* ---- history (not read by the program)
  nsent,         \* number of Send invocations so far (entry ids 1..nsent)
  ncalls,        \* number of invocations so far
  deqLog,        \* entries taken from i.outputs by Receive, in order
  dropped,       \* entries taken from i.outputs by the overwrite loop
  sendOk,        \* ids of entries whose Send returned ErrorTypeNone
  before,        \* <<a, b>>: Send(a) returned ok before Send(b) was invoked
  stopReturned,  \* some call to Stop has returned
  stopWoke,      \* the goroutines that close(i.stopCh) found parked and woke
  sequential,    \* so far only circular Sends, never two calls in flight
  overlap,       \* some call was invoked while another was in flight
  callBudget     \* number of invocations the callers make in this run

chanVars == <<outputs, outputsClosed, recvq, sendq, stopChClosed>>
objVars == <<stopped, capacity, circularBufferMaxIterations, lock>>
procVars == <<pc, entry, blockingWriteTimeoutSeconds, iterations, res>>
histVars == <<nsent, ncalls, deqLog, dropped, sendOk, before, stopReturned, stopWoke,
              sequential, overlap, callBudget>>
vars == <<chanVars, objVars, procVars, histVars>>

\* ---------------------------------------------------------------- data
\* StreamEntry (lines 13-17); the zero value is what a closed channel yields
ZeroEntry == [OutputUUID |-> 0, Output |-> 0, Timestamp |-> 0]

\* entry := StreamEntry{...} (lines 55-59) from the arguments of Send
StreamEntry(outputUuid, output, timestamp) ==
  [OutputUUID |-> outputUuid, Output |-> output, Timestamp |-> timestamp]

\* mutant of InternalReceiveResponse: the Output field is not copied
InternalReceiveResponseNoOutput(e) ==
  [OutputUuid |-> e.OutputUUID, Output |-> 0, Timestamp |-> e.Timestamp]

\* &InternalReceiveResponse{...} (lines 140-143)
InternalReceiveResponse(e) ==
  [OutputUuid |-> e.OutputUUID, Output |-> e.Output, Timestamp |-> e.Timestamp]

\* the entry an InternalReceiveResponse was built from
EntryOf(r) == StreamEntry(r.OutputUuid, r.Output, r.Timestamp)

\* result of a call: kind of call, ErrorType, and the *InternalReceiveResponse
\* (<<>> is nil)
NoRes == [kind |-> "none", outcome |-> "none", output |-> <<>>]
Result(kind, outcome) == [kind |-> kind, outcome |-> outcome, output |-> <<>>]
\* Receive's ok return, lines 140-144
ReceiveOk(e) ==
  [kind |-> "recv", outcome |-> "ok", output |-> <<InternalReceiveResponse(e)>>]

SendKind(p) == IF blockingWriteTimeoutSeconds[p] <= 0 THEN "circ" ELSE "blk"

Remove(q, p) == SelectSeq(q, LAMBDA x : x # p)
Range(s) == {s[i] : i \in 1..Len(s)}

\* ------------------------------------------------- the channel i.outputs
\* mutant of HasRoom: the buffer takes one entry more than `size`
HasRoomOffByOne(q, cap) == Len(q) <= cap

\* make(chan StreamEntry, size), line 41: a send finds room while the buffer
\* holds fewer than `size` entries
HasRoom(q, cap) == Len(q) < cap

\* mutant of Enqueue: a send into a non-empty buffer overwrites the oldest entry
EnqueueOverwriting(q, e) == IF q = <<>> THEN <<e>> ELSE Append(Tail(q), e)

\* mutant of Enqueue: the entry is put in front of the older ones
EnqueueAtHead(q, e) == <<e>> \o q

\* outputsChan <- entry (lines 78, 103, 119): the entry goes to the tail
Enqueue(q, e) == Append(q, e)

\* <-outputsChan (lines 101, 138): the entry received is the oldest one
Oldest(q) == Head(q)

\* mutant of RemoveOldest: the receive removes the newest entry instead
RemoveNewest(q) == SubSeq(q, 1, Len(q) - 1)

\* mutant of RemoveOldest: the receive leaves the entry in the buffer
RemoveOldestKeeps(q) == q

\* <-outputsChan (lines 101, 138): the oldest entry leaves the buffer
RemoveOldest(q) == Tail(q)

\* What `outputsChan <- entry` finds when polled (lines 78, 103, 119): a send
\* on a closed channel panics; else a parked receiver takes the entry
\* directly; else it is buffered if there is room; else the case is not ready.
SendCase ==
  IF outputsClosed THEN "panic"
  ELSE IF recvq # <<>> THEN "handoff"
  ELSE IF HasRoom(outputs, capacity) THEN "enqueue"
  ELSE "full"

\* What `<-outputsChan` finds when polled (lines 101, 138): a closed and
\* drained channel yields the zero value; else a parked sender is completed;
\* else a buffered entry is taken; else the case is not ready.
RecvCase ==
  IF outputsClosed /\ outputs = <<>> THEN "closed"
  ELSE IF sendq # <<>> THEN "fromSender"
  ELSE IF outputs # <<>> THEN "buffered"
  ELSE "empty"

\* The value a ready `<-outputsChan` yields and the channel it leaves behind
\* (lines 101, 138).  With a parked sender and a buffer the receiver takes the
\* oldest buffered entry and the sender's entry moves into the buffer; with no
\* buffer (capacity 0) it takes the sender's entry.
RecvResult ==
  CASE RecvCase = "closed" ->
         [val |-> ZeroEntry, buf |-> outputs, sq |-> sendq, woken |-> NoProc]
    [] RecvCase = "fromSender" ->
         LET s == Head(sendq) IN
         IF outputs = <<>>
         THEN [val |-> entry[s], buf |-> outputs, sq |-> Tail(sendq), woken |-> s]
         ELSE [val |-> Oldest(outputs),
               buf |-> Enqueue(RemoveOldest(outputs), entry[s]),
               sq |-> Tail(sendq), woken |-> s]
    [] RecvCase = "buffered" ->
         [val |-> Oldest(outputs), buf |-> RemoveOldest(outputs),
          sq |-> sendq, woken |-> NoProc]

\* the stop arm of a select, `case <-i.stopCh` (lines 81, 106, 122, 145)
StopReady == stopChClosed

\* ---------------------------------------------------------------- Init
\* NewInMemoryStreamImpl(size), lines 39-46, after an optional
\* SetCircularBufferMaxIterations, lines 35-37
Init ==
  /\ outputs = <<>>
  /\ outputsClosed = FALSE
  /\ recvq = <<>>
  /\ sendq = <<>>
  /\ stopChClosed = FALSE
  /\ stopped = FALSE
  /\ capacity \in 0..MaxCapacity
  /\ circularBufferMaxIterations \in 1..MaxIterations
  /\ lock = NoProc
  /\ pc = [p \in Procs |-> "idle"]
  /\ entry = [p \in Procs |-> ZeroEntry]
  /\ blockingWriteTimeoutSeconds = [p \in Procs |-> 0]
  /\ iterations = [p \in Procs |-> 0]
  /\ res = [p \in Procs |-> NoRes]
  /\ nsent = 0
  /\ ncalls = 0
  /\ deqLog = <<>>
  /\ dropped = {}
  /\ sendOk = {}
  /\ before = {}
  /\ stopReturned = FALSE
  /\ stopWoke = {}
  /\ sequential = TRUE
  /\ overlap = FALSE
  /\ callBudget = MaxCalls

NoneInFlight == \A q \in Procs : pc[q] = "idle"

\* Goroutines are interchangeable: a new call runs on the lowest-numbered
\* goroutine that is not inside a call (and has not panicked).
IsFree(p) == pc[p] = "idle" /\ \A q \in Procs : pc[q] = "idle" => p <= q

\* the call of p ends with `outcome` and no response (a `return` statement;
\* the deferred Unlock runs when the goroutine leaves the function, see Return)
Finish(p, kind, outcome) ==
  /\ pc' = [pc EXCEPT ![p] = "ret"]
  /\ res' = [res EXCEPT ![p] = Result(kind, outcome)]

\* `if i.stopped` read without the lock (lines 51, 133): the read races with
\* the write of line 162, so it yields the current value or the stale false
RacyStopped == {stopped, FALSE}

\* ------------------------------------------------ channel operations
\* p's `outputsChan <- entry` case is taken (lines 78-80, 103-105, 119-121).
\* Requires SendCase # "full".
SendCommit(p) ==
  CASE SendCase = "panic" ->
         \* send on closed channel: the goroutine panics out of Send; the
         \* deferred Unlock (line 87) runs while the panic unwinds
         /\ pc' = [pc EXCEPT ![p] = "panicked"]
         /\ res' = [res EXCEPT ![p] = Result(SendKind(p), "panic")]
         /\ lock' = IF lock = p THEN NoProc ELSE lock
         /\ UNCHANGED <<outputs, recvq, deqLog, dropped>>
    [] SendCase = "handoff" ->
         LET r == Head(recvq) IN
         /\ recvq' = Tail(recvq)
         /\ IF pc[r] = "recv_parked"
            THEN \* a Receive parked in its select takes the entry, line 138
                 /\ pc' = [pc EXCEPT ![p] = "ret", ![r] = "ret"]
                 /\ res' = [res EXCEPT ![p] = Result(SendKind(p), "ok"),
                                       ![r] = ReceiveOk(entry[p])]
                 /\ deqLog' = Append(deqLog, entry[p])
                 /\ UNCHANGED dropped
            ELSE \* an overwrite loop parked at line 101 takes and drops it
                 /\ pc' = [pc EXCEPT ![p] = "ret", ![r] = "circ_try"]
                 /\ res' = [res EXCEPT ![p] = Result(SendKind(p), "ok")]
                 /\ dropped' = dropped \cup {entry[p]}
                 /\ UNCHANGED deqLog
         /\ UNCHANGED <<outputs, lock>>
    [] SendCase = "enqueue" ->
         /\ outputs' = Enqueue(outputs, entry[p])
         /\ Finish(p, SendKind(p), "ok")
         /\ UNCHANGED <<recvq, lock, deqLog, dropped>>

\* p's `<-outputsChan` yields a value (lines 101, 138): the channel after it,
\* and the parked sender it completed, if any.  Requires RecvCase # "empty".
\* `pcp` and `resp` are p's own next position and result.
RecvCommit(p, pcp, resp) ==
  LET rr == RecvResult IN
  /\ outputs' = rr.buf
  /\ sendq' = rr.sq
  /\ IF rr.woken = NoProc
     THEN /\ pc' = [pc EXCEPT ![p] = pcp]
          /\ res' = [res EXCEPT ![p] = resp]
     ELSE \* the parked Send returns ErrorTypeNone, line 121
          /\ pc' = [pc EXCEPT ![p] = pcp, ![rr.woken] = "ret"]
          /\ res' = [res EXCEPT ![p] = resp,
                                ![rr.woken] = Result(SendKind(rr.woken), "ok")]

\* mutant of ZeroCapacity: the capacity test of line 73 is missing
ZeroCapacityNever(cap) == FALSE

\* line 73: `if i.capacity == 0`, the buffer has no slot to overwrite into
ZeroCapacity(cap) == cap = 0

\* ---------------------------------------------------------------- Send
\* A goroutine calls Send(output, outputUuid, timestamp, t), lines 49-68: the
\* unlocked stopped check, the entry, the choice of discipline, and the
\* capacity test of lines 73-75 (an immutable field).
CallSend(p, t) ==
  /\ IsFree(p)
  /\ ncalls < callBudget
  /\ entry' = [entry EXCEPT ![p] = StreamEntry(nsent + 1, nsent + 1, nsent + 1)]
  /\ blockingWriteTimeoutSeconds' = [blockingWriteTimeoutSeconds EXCEPT ![p] = t]
  /\ \E s \in RacyStopped :
       IF s
       THEN Finish(p, IF t <= 0 THEN "circ" ELSE "blk", "StreamStopped")
       ELSE IF t <= 0
            THEN IF ZeroCapacity(capacity)
                 THEN Finish(p, "circ", "InvalidRequest")
                 ELSE /\ pc' = [pc EXCEPT ![p] = "circ_select"]
                      /\ UNCHANGED res
            ELSE /\ pc' = [pc EXCEPT ![p] = "blk_select"]
                 /\ UNCHANGED res
  /\ nsent' = nsent + 1
  /\ ncalls' = ncalls + 1
  /\ before' = before \cup {<<a, nsent + 1>> : a \in sendOk}
  /\ sequential' = (sequential /\ NoneInFlight /\ t <= 0)
  /\ UNCHANGED <<chanVars, objVars, iterations>>
  /\ overlap' = (overlap \/ ~NoneInFlight)
  /\ UNCHANGED <<deqLog, dropped, sendOk, stopReturned, stopWoke, callBudget>>

\* lines 77-83: the first, non-blocking select of the circular discipline
CircSelect(p) ==
  /\ pc[p] = "circ_select"
  /\ \/ /\ SendCase # "full"
        /\ SendCommit(p)
        /\ UNCHANGED <<outputsClosed, sendq, stopChClosed>>
     \/ /\ StopReady
        /\ Finish(p, "circ", "StreamStopped")
        /\ UNCHANGED <<chanVars, lock, deqLog, dropped>>
     \/ /\ SendCase = "full" /\ ~StopReady
        /\ pc' = [pc EXCEPT ![p] = "circ_lock"]
        /\ UNCHANGED <<chanVars, lock, deqLog, dropped, res>>
  /\ UNCHANGED <<stopped, capacity, circularBufferMaxIterations>>
  /\ UNCHANGED <<entry, blockingWriteTimeoutSeconds, iterations>>
  /\ UNCHANGED <<nsent, ncalls, overlap, callBudget, sendOk, before, stopReturned, stopWoke, sequential>>

\* mutant of LoopHead: the loop gives up one iteration early (>= for >)
LoopHeadOffByOne(p, n) ==
  /\ iterations' = [iterations EXCEPT ![p] = n + 1]
  /\ IF n + 1 >= circularBufferMaxIterations
     THEN Finish(p, "circ", "CircularBufferIterationLimit")
     ELSE /\ pc' = [pc EXCEPT ![p] = "circ_deq"]
          /\ UNCHANGED res

\* lines 96-99: head of the overwrite loop with `n` iterations done so far
LoopHead(p, n) ==
  /\ iterations' = [iterations EXCEPT ![p] = n + 1]
  /\ IF n + 1 > circularBufferMaxIterations
     THEN Finish(p, "circ", "CircularBufferIterationLimit")
     ELSE /\ pc' = [pc EXCEPT ![p] = "circ_deq"]
          /\ UNCHANGED res

\* lines 86-99: i.Lock(), stopped re-checked under the lock, iterations := 0
\* and the first pass through the head of the loop
CircLock(p) ==
  /\ pc[p] = "circ_lock"
  /\ lock = NoProc
  /\ lock' = p
  /\ IF stopped
     THEN /\ Finish(p, "circ", "StreamStopped")
          /\ UNCHANGED iterations
     ELSE LoopHead(p, 0)
  /\ UNCHANGED <<chanVars, stopped, capacity, circularBufferMaxIterations>>
  /\ UNCHANGED <<entry, blockingWriteTimeoutSeconds, histVars>>

\* line 101: <-outputsChan, a plain (blocking) receive under the lock
CircDeq(p) ==
  /\ pc[p] = "circ_deq"
  /\ IF RecvCase = "empty"
     THEN /\ recvq' = Append(recvq, p)
          /\ pc' = [pc EXCEPT ![p] = "circ_deq_parked"]
          /\ UNCHANGED <<outputs, sendq, res, dropped>>
     ELSE /\ RecvCommit(p, "circ_try", res[p])
          /\ dropped' = dropped \cup {RecvResult.val}
          /\ UNCHANGED recvq
  /\ UNCHANGED <<outputsClosed, stopChClosed, objVars>>
  /\ UNCHANGED <<entry, blockingWriteTimeoutSeconds, iterations>>
  /\ UNCHANGED <<nsent, ncalls, overlap, callBudget, deqLog, sendOk, before, stopReturned, stopWoke, sequential>>

\* lines 102-111 and 96-99: the select inside the overwrite loop; its default
\* arm goes round the loop
CircTry(p) ==
  /\ pc[p] = "circ_try"
  /\ \/ /\ SendCase # "full"
        /\ SendCommit(p)
        /\ UNCHANGED <<outputsClosed, sendq, stopChClosed, iterations>>
     \/ /\ StopReady
        /\ Finish(p, "circ", "StreamStopped")
        /\ UNCHANGED <<chanVars, lock, deqLog, dropped, iterations>>
     \/ /\ SendCase = "full" /\ ~StopReady
        /\ LoopHead(p, iterations[p])
        /\ UNCHANGED <<chanVars, lock, deqLog, dropped>>
  /\ UNCHANGED <<stopped, capacity, circularBufferMaxIterations>>
  /\ UNCHANGED <<entry, blockingWriteTimeoutSeconds>>
  /\ UNCHANGED <<nsent, ncalls, overlap, callBudget, sendOk, before, stopReturned, stopWoke, sequential>>

\* lines 118-127: the select of the bounded-blocking discipline; the timer of
\* line 124 may have fired already; with no case ready the goroutine parks on
\* outputs, stopCh and its timer
BlkSelect(p) ==
  /\ pc[p] = "blk_select"
  /\ \/ /\ SendCase # "full"
        /\ SendCommit(p)
        /\ UNCHANGED <<outputsClosed, sendq, stopChClosed>>
     \/ /\ StopReady
        /\ Finish(p, "blk", "StreamStopped")
        /\ UNCHANGED <<chanVars, lock, deqLog, dropped>>
     \/ /\ Finish(p, "blk", "WaitingTimeout")
        /\ UNCHANGED <<chanVars, lock, deqLog, dropped>>
     \/ /\ SendCase = "full" /\ ~StopReady
        /\ sendq' = Append(sendq, p)
        /\ pc' = [pc EXCEPT ![p] = "blk_parked"]
        /\ UNCHANGED <<outputs, outputsClosed, recvq, stopChClosed>>
        /\ UNCHANGED <<lock, deqLog, dropped, res>>
  /\ UNCHANGED <<stopped, capacity, circularBufferMaxIterations>>
  /\ UNCHANGED <<entry, blockingWriteTimeoutSeconds, iterations>>
  /\ UNCHANGED <<nsent, ncalls, overlap, callBudget, sendOk, before, stopReturned, stopWoke, sequential>>

\* ---------------------------------------------------------------- Receive
\* A goroutine calls Receive(timeoutSeconds), lines 131-135: the unlocked
\* stopped check
CallReceive(p) ==
  /\ IsFree(p)
  /\ ncalls < callBudget
  /\ \E s \in RacyStopped :
       IF s
       THEN Finish(p, "recv", "StreamStopped")
       ELSE /\ pc' = [pc EXCEPT ![p] = "recv_select"]
            /\ UNCHANGED res
  /\ ncalls' = ncalls + 1
  /\ sequential' = FALSE
  /\ UNCHANGED <<chanVars, objVars, entry, blockingWriteTimeoutSeconds, iterations>>
  /\ overlap' = (overlap \/ ~NoneInFlight)
  /\ UNCHANGED <<nsent, deqLog, dropped, sendOk, before, stopReturned, stopWoke, callBudget>>

\* lines 137-150: the select of Receive; the timer of line 147 may have fired
\* already; with no case ready the goroutine parks on outputs, stopCh and its
\* timer
RecvSelect(p) ==
  /\ pc[p] = "recv_select"
  /\ \/ /\ RecvCase # "empty"
        /\ RecvCommit(p, "ret", ReceiveOk(RecvResult.val))
        /\ deqLog' = Append(deqLog, RecvResult.val)
        /\ UNCHANGED recvq
     \/ /\ StopReady
        /\ Finish(p, "recv", "StreamStopped")
        /\ UNCHANGED <<outputs, recvq, sendq, deqLog>>
     \/ /\ Finish(p, "recv", "WaitingTimeout")
        /\ UNCHANGED <<outputs, recvq, sendq, deqLog>>
     \/ /\ RecvCase = "empty" /\ ~StopReady
        /\ recvq' = Append(recvq, p)
        /\ pc' = [pc EXCEPT ![p] = "recv_parked"]
        /\ UNCHANGED <<outputs, sendq, deqLog, res>>
  /\ UNCHANGED <<outputsClosed, stopChClosed, objVars>>
  /\ UNCHANGED <<entry, blockingWriteTimeoutSeconds, iterations>>
  /\ UNCHANGED <<nsent, ncalls, overlap, callBudget, dropped, sendOk, before, stopReturned, stopWoke, sequential>>

\* mutant of TimerFire: one timer wakes every goroutine parked in the same
\* kind of select
TimerFireBroadcast(p) ==
  /\ pc[p] \in {"blk_parked", "recv_parked"}
  /\ LET W == {q \in Procs : pc[q] = pc[p]} IN
     /\ pc' = [q \in Procs |-> IF q \in W THEN "ret" ELSE pc[q]]
     /\ res' = [q \in Procs |->
                  IF q \in W
                  THEN Result(IF pc[p] = "blk_parked" THEN "blk" ELSE "recv",
                              "WaitingTimeout")
                  ELSE res[q]]
     /\ recvq' = SelectSeq(recvq, LAMBDA q : q \notin W)
     /\ sendq' = SelectSeq(sendq, LAMBDA q : q \notin W)
  /\ UNCHANGED <<outputs, outputsClosed, stopChClosed, objVars>>
  /\ UNCHANGED <<entry, blockingWriteTimeoutSeconds, iterations, histVars>>

\* ---------------------------------------------------------------- timers
\* the timer of time.After (lines 124-126, 147-149) fires while its goroutine
\* is parked in the select: that goroutine, and no other, returns the timeout
TimerFire(p) ==
  /\ pc[p] \in {"blk_parked", "recv_parked"}
  /\ Finish(p, IF pc[p] = "blk_parked" THEN "blk" ELSE "recv", "WaitingTimeout")
  /\ recvq' = Remove(recvq, p)
  /\ sendq' = Remove(sendq, p)
  /\ UNCHANGED <<outputs, outputsClosed, stopChClosed, objVars>>
  /\ UNCHANGED <<entry, blockingWriteTimeoutSeconds, iterations, histVars>>

\* ---------------------------------------------------------------- Stop
\* a goroutine calls Stop(), line 154
CallStop(p) ==
  /\ IsFree(p)
  /\ ncalls < callBudget
  /\ pc' = [pc EXCEPT ![p] = "stop_lock"]
  /\ ncalls' = ncalls + 1
  /\ sequential' = FALSE
  /\ UNCHANGED <<chanVars, objVars, entry, blockingWriteTimeoutSeconds, iterations, res>>
  /\ overlap' = (overlap \/ ~NoneInFlight)
  /\ UNCHANGED <<nsent, deqLog, dropped, sendOk, before, stopReturned, stopWoke, callBudget>>

\* mutant of StopLock: the `if i.stopped` test of line 158 is missing
StopLockNoCheck(p) ==
  /\ pc[p] = "stop_lock"
  /\ lock = NoProc
  /\ lock' = p
  /\ stopped' = TRUE
  /\ pc' = [pc EXCEPT ![p] = "stop_close_stopch"]
  /\ UNCHANGED res
  /\ UNCHANGED <<chanVars, capacity, circularBufferMaxIterations>>
  /\ UNCHANGED <<entry, blockingWriteTimeoutSeconds, iterations, histVars>>

\* lines 155-162: i.Lock(); a second Stop returns nil; the first sets
\* i.stopped
StopLock(p) ==
  /\ pc[p] = "stop_lock"
  /\ lock = NoProc
  /\ lock' = p
  /\ IF stopped
     THEN /\ Finish(p, "stop", "ok")
          /\ UNCHANGED stopped
     ELSE /\ stopped' = TRUE
          /\ pc' = [pc EXCEPT ![p] = "stop_close_stopch"]
          /\ UNCHANGED res
  /\ UNCHANGED <<chanVars, capacity, circularBufferMaxIterations>>
  /\ UNCHANGED <<entry, blockingWriteTimeoutSeconds, iterations, histVars>>

\* mutant of StopWaiters: the bounded-blocking select has no stop arm
StopWaitersReceiveOnly == {q \in Procs : pc[q] = "recv_parked"}

\* the goroutines that close(i.stopCh) wakes: those parked in a select with a
\* `case <-i.stopCh` arm (lines 122, 145)
StopWaiters == {q \in Procs : pc[q] \in {"blk_parked", "recv_parked"}}

\* line 163: close(i.stopCh); every goroutine parked on it returns stopped
StopCloseStopCh(p) ==
  /\ pc[p] = "stop_close_stopch"
  /\ stopChClosed' = TRUE
  /\ LET W == StopWaiters IN
     /\ pc' = [q \in Procs |->
                 IF q = p THEN "stop_close_outputs"
                 ELSE IF q \in W THEN "ret" ELSE pc[q]]
     /\ res' = [q \in Procs |->
                 IF q \in W
                 THEN Result(IF pc[q] = "blk_parked" THEN "blk" ELSE "recv", "StreamStopped")
                 ELSE res[q]]
     /\ recvq' = SelectSeq(recvq, LAMBDA q : q \notin W)
     /\ sendq' = SelectSeq(sendq, LAMBDA q : q \notin W)
     /\ stopWoke' = W
  /\ UNCHANGED <<outputs, outputsClosed, objVars>>
  /\ UNCHANGED <<entry, blockingWriteTimeoutSeconds, iterations>>
  /\ UNCHANGED <<nsent, ncalls, overlap, callBudget, deqLog, dropped, sendOk, before, stopReturned, sequential>>

\* lines 165-166: close(i.outputs) and return nil; a receiver still parked on
\* the channel gets the zero value, a sender still parked on it panics; the
\* buffer keeps its entries
StopCloseOutputs(p) ==
  /\ pc[p] = "stop_close_outputs"
  /\ outputsClosed' = TRUE
  /\ LET R == Range(recvq)
         S == Range(sendq)
         got == SelectSeq(recvq, LAMBDA q : pc[q] = "recv_parked")
     IN
     /\ pc' = [q \in Procs |->
                 IF q = p THEN "ret"
                 ELSE IF q \in S THEN "panicked"
                 ELSE IF q \in R
                      THEN (IF pc[q] = "recv_parked" THEN "ret" ELSE "circ_try")
                      ELSE pc[q]]
     /\ res' = [q \in Procs |->
                 IF q = p THEN Result("stop", "ok")
                 ELSE IF q \in S THEN Result(SendKind(q), "panic")
                 ELSE IF q \in R /\ pc[q] = "recv_parked" THEN ReceiveOk(ZeroEntry)
                 ELSE res[q]]
     /\ deqLog' = deqLog \o [i \in 1..Len(got) |-> ZeroEntry]
     /\ dropped' = IF \E q \in R : pc[q] = "circ_deq_parked"
                   THEN dropped \cup {ZeroEntry} ELSE dropped
  /\ recvq' = <<>>
  /\ sendq' = <<>>
  /\ UNCHANGED <<outputs, stopChClosed, objVars>>
  /\ UNCHANGED <<entry, blockingWriteTimeoutSeconds, iterations>>
  /\ UNCHANGED <<nsent, ncalls, overlap, callBudget, sendOk, before, stopReturned, stopWoke, sequential>>

\* ---------------------------------------------------------------- return
\* The call returns to its caller; a deferred Unlock (lines 87, 156) runs on
\* the way out.
Return(p) ==
  /\ pc[p] = "ret"
  /\ pc' = [pc EXCEPT ![p] = "idle"]
  /\ lock' = IF lock = p THEN NoProc ELSE lock
  /\ res' = [res EXCEPT ![p] = NoRes]
  /\ entry' = [entry EXCEPT ![p] = ZeroEntry]
  /\ blockingWriteTimeoutSeconds' = [blockingWriteTimeoutSeconds EXCEPT ![p] = 0]
  /\ iterations' = [iterations EXCEPT ![p] = 0]
  /\ sendOk' = IF res[p].kind \in {"circ", "blk"} /\ res[p].outcome = "ok"
               THEN sendOk \cup {entry[p].OutputUUID} ELSE sendOk
  /\ stopReturned' = (stopReturned \/ res[p].kind = "stop")
  /\ UNCHANGED <<chanVars, stopped, capacity, circularBufferMaxIterations>>
  /\ UNCHANGED <<nsent, ncalls, overlap, callBudget, deqLog, dropped, before, stopWoke, sequential>>

\* ---------------------------------------------------------------- Next
Next ==
  \/ \E p \in Procs, t \in BlockingWriteTimeouts : CallSend(p, t)
  \/ \E p \in Procs : CallReceive(p)
  \/ \E p \in Procs : CallStop(p)
  \/ \E p \in Procs : CircSelect(p)
  \/ \E p \in Procs : CircLock(p)
  \/ \E p \in Procs : CircDeq(p)
  \/ \E p \in Procs : CircTry(p)
  \/ \E p \in Procs : BlkSelect(p)
  \/ \E p \in Procs : RecvSelect(p)
  \/ \E p \in Procs : TimerFire(p)
  \/ \E p \in Procs : StopLock(p)
  \/ \E p \in Procs : StopCloseStopCh(p)
  \/ \E p \in Procs : StopCloseOutputs(p)
  \/ \E p \in Procs : Return(p)

Spec == Init /\ [][Next]_vars

\* A run in which the callers make one more invocation, on a buffer built by
\* NewInMemoryStreamImpl(1) (lines 39-46)
InitDeep ==
  /\ outputs = <<>>
  /\ outputsClosed = FALSE
  /\ recvq = <<>>
  /\ sendq = <<>>
  /\ stopChClosed = FALSE
  /\ stopped = FALSE
  /\ capacity = 1
  /\ circularBufferMaxIterations \in 1..MaxIterations
  /\ lock = NoProc
  /\ pc = [p \in Procs |-> "idle"]
  /\ entry = [p \in Procs |-> ZeroEntry]
  /\ blockingWriteTimeoutSeconds = [p \in Procs |-> 0]
  /\ iterations = [p \in Procs |-> 0]
  /\ res = [p \in Procs |-> NoRes]
  /\ nsent = 0
  /\ ncalls = 0
  /\ deqLog = <<>>
  /\ dropped = {}
  /\ sendOk = {}
  /\ before = {}
  /\ stopReturned = FALSE
  /\ stopWoke = {}
  /\ sequential = TRUE
  /\ overlap = FALSE
  /\ callBudget = MaxCalls + 1

SpecDeep == InitDeep /\ [][Next]_vars

\* ================================================================ claims
\* the entries that have been passed to Send so far
SentEntries == {StreamEntry(n, n, n) : n \in 1..nsent}

\* p's call is a Receive about to return ErrorTypeNone with a response
ReceivedOk(p) == pc[p] = "ret" /\ res[p].kind = "recv" /\ res[p].outcome = "ok"

\* in this step the outcome of p's call is decided
Decided(p) == pc[p] \notin {"ret", "panicked"} /\ pc'[p] \in {"ret", "panicked"}

\* C1: no forgery - every entry that a Receive returns with outcome ok was
\* passed to some Send before.
C1_NoForgery ==
  \A p \in Procs : ReceivedOk(p) => EntryOf(res[p].output[1]) \in SentEntries

\* C3: stop safety - once a call to Stop has returned, no Send and no Receive
\* comes to the outcome ok any more.
C3_StopSafety ==
  [][stopReturned =>
       \A p \in Procs :
         (Decided(p) /\ res'[p].kind \in {"circ", "blk", "recv"})
           => res'[p].outcome # "ok"]_vars

\* C4: once the stopped flag is true no entry is enqueued into or dequeued
\* from the queue: the queue no longer changes and no Receive takes an entry.
C4_FrozenAfterStopped ==
  [][stopped => (outputs' = outputs /\ deqLog' = deqLog)]_vars

C5_Bound == Len(outputs) <= capacity

\* C5 witness: a full queue of capacity >= 2 after a circular overwrite, with
\* a bounded-blocking Send waiting for space.
C5_Witness ==
  /\ capacity >= 2
  /\ Len(outputs) = capacity
  /\ dropped # {}
  /\ \E p \in Procs : pc[p] = "blk_parked"

C7_NoDuplication ==
  /\ \A i, j \in 1..Len(deqLog) :
       (i # j /\ deqLog[i] # ZeroEntry) => deqLog[i] # deqLog[j]
  /\ \A i, j \in 1..Len(outputs) : i # j => outputs[i] # outputs[j]
  /\ \A d \in dropped \ {ZeroEntry} : d \notin Range(deqLog)
  /\ \A i \in 1..Len(outputs) :
       outputs[i] \notin Range(deqLog) /\ outputs[i] \notin dropped

\* C7 witness: an overwrite dropped the oldest entry and two Receives ran:
\* one took the surviving entry, the other found nothing left to take.
C7_Witness ==
  /\ \E d \in dropped : d # ZeroEntry
  /\ Len(deqLog) = 1
  /\ deqLog[1] # ZeroEntry
  /\ outputs = <<>>
  /\ \E p \in Procs : pc[p] = "ret" /\ res[p].kind = "recv" /\ res[p].outcome = "WaitingTimeout"

Min(a, b) == IF a <= b THEN a ELSE b
IsPrefix(a, b) == Len(a) <= Len(b) /\ SubSeq(b, 1, Len(a)) = a

\* C8: circular overflow, sequential case - after n circular Sends that ran
\* one after another with nothing else, on a buffer of capacity c >= 1, every
\* one returned ok and the queue holds the last min(n, c) entries in send
\* order.
C8_SequentialCircular ==
  (sequential /\ NoneInFlight /\ capacity >= 1) =>
    /\ sendOk = 1..nsent
    /\ outputs = [i \in 1..Min(nsent, capacity) |->
                    LET k == nsent - Min(nsent, capacity) + i
                    IN StreamEntry(k, k, k)]

\* C8 witness: capacity 2 and four sequential circular Sends; two entries
\* were overwritten.
C8_Witness ==
  /\ sequential /\ NoneInFlight
  /\ capacity = 2
  /\ nsent = 4
  /\ Cardinality(dropped) = 2

\* the buffer is full and active and no receiver is waiting for an entry
FullAndActive ==
  /\ Len(outputs) = capacity
  /\ recvq = <<>>
  /\ ~stopChClosed
  /\ ~outputsClosed

\* C9: bounded-blocking discipline - the select of a bounded-blocking Send
\* never removes an entry from the queue; on a full and active buffer it waits
\* or returns waiting-timeout, and a waiting-timeout leaves the queue as it
\* was, without the Send's entry.
C9_BlockingFrame ==
  [][\A p \in Procs :
       /\ (pc[p] = "blk_select" /\ pc'[p] # "blk_select") =>
            /\ IsPrefix(outputs, outputs')
            /\ FullAndActive =>
                 /\ outputs' = outputs
                 /\ \/ pc'[p] = "blk_parked"
                    \/ pc'[p] = "ret" /\ res'[p].outcome = "WaitingTimeout"
       /\ (pc[p] \in {"blk_select", "blk_parked"}
             /\ pc'[p] = "ret" /\ res'[p].outcome = "WaitingTimeout") =>
            /\ outputs' = outputs
            /\ \A i \in 1..Len(outputs') : outputs'[i] # entry[p]]_vars

\* C9 witness: capacity 1, Send of entry 1 returned ok, then a bounded-blocking
\* Send of entry 2 came to waiting-timeout with entry 1 still alone in the queue.
C9_Witness ==
  /\ capacity = 1
  /\ outputs = <<StreamEntry(1, 1, 1)>>
  /\ deqLog = <<>>
  /\ <<1, 2>> \in before
  /\ \E p \in Procs :
       /\ pc[p] = "ret" /\ res[p].kind = "blk" /\ res[p].outcome = "WaitingTimeout"
       /\ entry[p] = StreamEntry(2, 2, 2)

\* C10: rendezvous - with capacity 0 nothing is ever stored; a bounded-blocking
\* Send comes to ok only in a step in which a Receive takes its entry, and that
\* Receive returns exactly that entry; with no Receive waiting on an active
\* buffer the Send waits or returns waiting-timeout.
C10_Rendezvous ==
  [][capacity = 0 =>
       /\ outputs' = <<>>
       /\ \A p \in Procs :
            /\ (pc[p] \in {"blk_select", "blk_parked"}
                  /\ pc'[p] = "ret" /\ res'[p].outcome = "ok") =>
                 /\ deqLog' = Append(deqLog, entry[p])
                 /\ \E r \in Procs \ {p} :
                      /\ pc[r] \in {"recv_select", "recv_parked"}
                      /\ pc'[r] = "ret"
                      /\ res'[r].kind = "recv" /\ res'[r].outcome = "ok"
                      /\ EntryOf(res'[r].output[1]) = entry[p]
            /\ (pc[p] = "blk_select" /\ pc'[p] # "blk_select" /\ FullAndActive) =>
                 \/ pc'[p] = "blk_parked"
                 \/ pc'[p] = "ret" /\ res'[p].outcome = "WaitingTimeout"]_vars

\* C10 witness: capacity 0, a bounded-blocking Send and a Receive met: the
\* Send is about to return ok and the Receive its entry.
C10_Witness ==
  /\ capacity = 0
  /\ \E p, r \in Procs :
       /\ pc[p] = "ret" /\ res[p].kind = "blk" /\ res[p].outcome = "ok"
       /\ ReceivedOk(r)
       /\ EntryOf(res[r].output[1]) = entry[p]

\* in this step p invokes a Send
InvokesSend(p) == pc[p] = "idle" /\ pc'[p] # "idle" /\ nsent' = nsent + 1

\* C11: on an active buffer of capacity 0 every circular-mode Send returns
\* InvalidRequest in the step that invokes it (it never blocks) and changes
\* no state: the queue, the wait queues, the stopped flag, the stop signal and
\* the lock stay as they were, nothing is dequeued or dropped, and no other
\* goroutine (in particular no waiting Receive) moves.
C11_ZeroCapacityRejected ==
  [][\A p \in Procs :
       (InvokesSend(p) /\ blockingWriteTimeoutSeconds'[p] <= 0
          /\ capacity = 0 /\ ~stopped)
       => /\ pc'[p] = "ret"
          /\ res'[p] = Result("circ", "InvalidRequest")
          /\ UNCHANGED <<chanVars, objVars, deqLog, dropped>>
          /\ \A q \in Procs \ {p} : pc'[q] = pc[q] /\ res'[q] = res[q]]_vars

\* a circular Send, invoked after a Receive, was rejected on capacity 0 and
\* the Receive is parked
C11_Witness ==
  /\ capacity = 0 /\ ~stopped /\ ncalls = 2
  /\ \E p, q \in Procs :
       /\ q < p
       /\ pc[p] = "ret" /\ res[p] = Result("circ", "InvalidRequest")
       /\ pc[q] = "recv_parked" /\ recvq = <<q>>

\* the entries that are in the queue or have left it
Enqueued == Range(outputs) \cup Range(deqLog) \cup dropped

\* every entry that entered the queue belongs to a Send that returns ok
EnqueuedByOk ==
  \A e \in Enqueued \ {ZeroEntry} :
    \/ e.OutputUUID \in sendOk
    \/ \E p \in Procs : entry[p] = e /\ pc[p] = "ret" /\ res[p].outcome = "ok"

\* in this step p's attempt to enqueue after a dequeue (line 102) fails: p
\* leaves the select by its default arm
RoundFails(p) ==
  /\ pc[p] = "circ_try" /\ pc'[p] # "circ_try"
  /\ res'[p].outcome \notin {"ok", "StreamStopped", "panic"}

\* C12: a circular Send returns CircularBufferIterationLimit exactly when
\* circularBufferMaxIterations consecutive dequeue-then-try rounds have each
\* failed (the outcome is decided by the failure of round number
\* circularBufferMaxIterations, a failure of an earlier round goes round the
\* loop); its entry is then not in the queue, and only entries of Sends that
\* return ok ever enter the queue, so it is never delivered.
C12_IterationCap ==
  /\ []EnqueuedByOk
  /\ [][\A p \in Procs :
          /\ (Decided(p) /\ res'[p].outcome = "CircularBufferIterationLimit")
             => /\ RoundFails(p)
                /\ iterations[p] = circularBufferMaxIterations
                /\ entry[p] \notin Enqueued'
          /\ RoundFails(p)
             => IF iterations[p] = circularBufferMaxIterations
                THEN /\ pc'[p] = "ret"
                     /\ res'[p] = Result("circ", "CircularBufferIterationLimit")
                ELSE /\ iterations[p] < circularBufferMaxIterations
                     /\ pc'[p] = "circ_deq"]_vars

\* a circular Send gave up after two failed rounds
C12_Witness ==
  /\ circularBufferMaxIterations = 2
  /\ \E p \in Procs :
       /\ pc[p] = "ret" /\ res[p] = Result("circ", "CircularBufferIterationLimit")
       /\ iterations[p] = 3
       /\ Cardinality(dropped) = 2

\* the three returns of Receive: (response, ErrorTypeNone), (nil,
\* ErrorTypeWaitingTimeout), (nil, ErrorTypeStreamStopped)
ReceiveShape(r) ==
  \/ r.outcome = "ok" /\ Len(r.output) = 1
  \/ r.outcome \in {"StreamStopped", "WaitingTimeout"} /\ r.output = <<>>

\* C13: a Receive returns exactly one of (entry, ok), (none, stopped), (none,
\* timeout).  A Receive waiting on an empty active buffer can always be ended
\* by its deadline, and until then it is ended only by a Send that hands it
\* that Send's entry.  The step in which a Receive returns timeout takes that
\* Receive off the wait queue and changes nothing else: no entry is dequeued
\* or dropped and no other goroutine moves.
C13_ReceiveOutcomes ==
  /\ [](\A p \in Procs :
          /\ (pc[p] = "ret" /\ res[p].kind = "recv") => ReceiveShape(res[p])
          /\ pc[p] = "recv_parked" => ENABLED TimerFire(p))
  /\ [][\A p \in Procs :
          /\ (Decided(p) /\ res'[p] = Result("recv", "WaitingTimeout"))
             => /\ recvq' = Remove(recvq, p)
                /\ UNCHANGED <<outputs, outputsClosed, sendq, stopChClosed>>
                /\ UNCHANGED <<objVars, deqLog, dropped>>
                /\ \A q \in Procs \ {p} : pc'[q] = pc[q] /\ res'[q] = res[q]
          /\ (Decided(p) /\ pc[p] = "recv_parked" /\ ~stopped)
             => \/ res'[p] = Result("recv", "WaitingTimeout")
                \/ \E q \in Procs \ {p} :
                     /\ Decided(q) /\ res'[q] = Result(SendKind(q), "ok")
                     /\ res'[p] = ReceiveOk(entry[q])]_vars

\* on an empty active buffer one Receive has timed out and another Receive,
\* invoked before it, is still parked
C13_Witness ==
  /\ ~stopped /\ outputs = <<>> /\ nsent = 0 /\ ncalls = 2
  /\ \E p, q \in Procs :
       /\ q < p
       /\ pc[p] = "ret" /\ res[p] = Result("recv", "WaitingTimeout")
       /\ pc[q] = "recv_parked" /\ recvq = <<q>>

\* C14: round trip - on a fresh active buffer of capacity >= 1, after a
\* single Send(e) (either discipline) has returned ok, a single following
\* Receive returns ok with exactly e (same OutputUuid, Output and Timestamp)
\* and leaves the queue empty.
C14_RoundTrip ==
  (capacity >= 1 /\ ~overlap /\ ncalls = 2 /\ nsent = 1 /\ sendOk = {1})
  => \A p \in Procs :
       (pc[p] = "ret" /\ res[p].kind = "recv")
       => /\ res[p] = ReceiveOk(StreamEntry(1, 1, 1))
          /\ outputs = <<>>

\* in this step p's Stop gets past i.Lock() (line 155)
StopEnters(p) == pc[p] = "stop_lock" /\ pc'[p] # "stop_lock"

\* C15: Stop is idempotent and active -> stopped is terminal.  stopped never
\* goes back to false; the first Stop to get the lock sets stopped and goes on
\* to broadcast the stop signal; every Stop that gets the lock later (after the
\* first returned or while it is still running) returns without error in that
\* step and changes nothing: the channel, its wait queues, the stop signal, the
\* flag and every other goroutine stay as they were.  No Stop ever returns
\* anything else.
C15_StopIdempotent ==
  /\ [](\A p \in Procs :
          (pc[p] \in {"ret", "panicked"} /\ res[p].kind = "stop")
          => pc[p] = "ret" /\ res[p] = Result("stop", "ok") /\ stopped)
  /\ [][/\ stopped => stopped'
        /\ stopChClosed => stopChClosed'
        /\ \A p \in Procs :
             /\ (StopEnters(p) /\ ~stopped)
                => stopped' /\ pc'[p] = "stop_close_stopch"
             /\ (pc[p] = "stop_close_stopch" /\ pc'[p] # pc[p])
                => stopChClosed'
             /\ (StopEnters(p) /\ stopped)
                => /\ pc'[p] = "ret"
                   /\ res'[p] = Result("stop", "ok")
                   /\ UNCHANGED <<chanVars, stopped, capacity>>
                   /\ UNCHANGED <<circularBufferMaxIterations, deqLog, dropped>>
                   /\ \A q \in Procs \ {p} : pc'[q] = pc[q] /\ res'[q] = res[q]]_vars

\* the first Stop has returned; a Stop invoked while it ran has found the
\* buffer stopped and is returning, and a third Stop waits for the lock
C15_Witness ==
  /\ stopped
  /\ \E p, q \in Procs :
       /\ p # q
       /\ pc[p] = "ret" /\ res[p] = Result("stop", "ok") /\ lock = p
       /\ pc[q] = "stop_lock"
       /\ stopReturned

\* p is inside a Send, past the unlocked stopped check of line 51
InSend(p) ==
  pc[p] \in {"circ_select", "circ_lock", "circ_deq", "circ_deq_parked",
             "circ_try", "blk_select", "blk_parked"}

\* C16: benign stop race - a Send that passed the unlocked stopped check and
\* is overtaken by Stop (here: Stop has set the flag and closed both channels
\* before the Send's outcome is decided) returns StreamStopped, or
\* WaitingTimeout if it is a bounded-blocking Send whose own deadline has
\* passed; it does not return ok and does not end in any other way.
C16_BenignStopRace ==
  [][\A p \in Procs :
       (InSend(p) /\ outputsClosed /\ Decided(p))
       => /\ pc'[p] = "ret"
          /\ res'[p].outcome \in {"StreamStopped", "WaitingTimeout"}]_vars

\* C17: a circular-mode Send suspends only while it acquires the lock; it is
\* never parked on the channel waiting for an entry to appear in the queue
\* (which is what lets every circular Send return under fair scheduling, also
\* when Receives empty the queue between its failed first attempt and its
\* dequeue step).
C17_CircularNeverWaits ==
  \A p \in Procs : pc[p] # "circ_deq_parked"

\* in this step p's Send returns ok
SendReturnsOk(p) ==
  Decided(p) /\ pc'[p] = "ret" /\ res'[p] = Result(SendKind(p), "ok")

\* the Receives parked on the channel
WaitingReceives == {q \in Procs : pc[q] = "recv_parked"}

\* C18: real-time match - if at least one Receive is waiting on the empty
\* active buffer when a Send of entry e returns ok, then one of the waiting
\* Receives returns ok with e in that step, whatever other Sends are in
\* flight.
C18_RealTimeMatch ==
  [][\A p \in Procs :
       (SendReturnsOk(p) /\ WaitingReceives # {} /\ outputs = <<>> /\ ~stopped)
       => \E q \in WaitingReceives :
            pc'[q] = "ret" /\ res'[q] = ReceiveOk(entry[p])]_vars

\* C19: a circular-mode Send discards an entry only from a full queue - at
\* every step in which the overwrite loop takes and drops an entry, the queue
\* held exactly `capacity` entries just before the step and the dropped entry
\* is the oldest entry of the queue.
C19_DropOnlyWhenFull ==
  [][dropped' # dropped
     => /\ Len(outputs) = capacity
        /\ outputs # <<>>
        /\ dropped' = dropped \cup {Oldest(outputs)}]_vars

\* a step of goroutine p inside the call it is executing (every action of Next
\* but the invocations, which are up to the callers), its timer included
Step(p) ==
  \/ CircSelect(p) \/ CircLock(p) \/ CircDeq(p) \/ CircTry(p)
  \/ BlkSelect(p) \/ RecvSelect(p) \/ TimerFire(p)
  \/ StopLock(p) \/ StopCloseStopCh(p) \/ StopCloseOutputs(p)
  \/ Return(p)

\* C20: Stop is never blocked forever on the lock - in every reachable state
\* in which a Stop waits for the lock, some goroutine inside a call can take
\* a step (so under fair scheduling the holder of the lock moves on, releases
\* it, and Stop returns, without help from calls not yet made).
C20_StopNotBlocked ==
  \A p \in Procs :
    pc[p] = "stop_lock" => ENABLED (\E q \in Procs : Step(q))

====
